---- MODULE Spec2Model ----
(***************************************************************************)
(* Model of the local-db-mcp-server upload / table service (src/server.py) *)
(* and of its MCP companion (src/mcp_server.py).                           *)
(*                                                                         *)
(* Text is a sequence of characters; a character is a one-symbol string.   *)
(* Characters outside ASCII are written by their code point ("U+E9").      *)
(* The embedded engine is modelled by its catalog: a function from table   *)
(* names to tables.                                                        *)
(***************************************************************************)
EXTENDS Integers, Sequences, FiniteSets, TLC

(* ------------------------------ bounds -------------------------------- *)
MaxStem == 1
MaxBytes == 1
MaxRows == 2
MaxCols == 1
MaxClock == 2
MaxPath == 2
MaxTables == 2
MaxNumber == 200
MaxContent == 4
DefaultLimit == 100

(* ---------------------------- characters ------------------------------ *)
DQ == "\""
SQ == "'"
PCT == "%"
EACUTE == "U+E9"
REPLACEMENT == "U+FFFD"

\* bytes that urllib.parse.quote never escapes (letters, digits, "_.-~"),
\* restricted to the characters that occur in the model
AlwaysSafe ==
  {"t", "a", "b", "l", "e", "d", "_", "-", "R", "U", "C", "A",
   "0", "1", "2", "3", "4", "5", "6", "7", "8", "9"}

HexDigits ==
  {"0", "1", "2", "3", "4", "5", "6", "7", "8", "9",
   "a", "b", "d", "e", "A", "C"}

RECURSIVE SeqsUpTo(_, _)
SeqsUpTo(S, n) ==
  IF n = 0 THEN {<<>>}
  ELSE LET shorter == SeqsUpTo(S, n - 1)
       IN  shorter \cup {Append(s, c) : s \in shorter, c \in S}

NonEmptySeqs(S, n) == SeqsUpTo(S, n) \ {<<>>}

\* the subsets of S with at most n elements
RECURSIVE SubsetsUpTo(_, _)
SubsetsUpTo(S, n) ==
  IF n = 0 THEN {{}}
  ELSE LET smaller == SubsetsUpTo(S, n - 1)
       IN  smaller \cup {T \cup {x} : T \in smaller, x \in S}

Contains(s, c) == \E i \in 1..Len(s) : s[i] = c

(* ------------------- urllib.parse.quote(s, safe='') -------------------- *)
\* UTF-8 bytes of a character, each written as its two upper-case hex digits
Utf8Hex(c) ==
  CASE c = PCT -> <<<<"2", "5">>>>
    [] c = " " -> <<<<"2", "0">>>>
    [] c = DQ -> <<<<"2", "2">>>>
    [] c = EACUTE -> <<<<"C", "3">>, <<"A", "9">>>>
    [] c = REPLACEMENT -> <<<<"E", "F">>, <<"B", "F">>, <<"B", "D">>>>

RECURSIVE PctBytes(_)
PctBytes(hs) ==
  IF hs = <<>> THEN <<>>
  ELSE <<PCT, hs[1][1], hs[1][2]>> \o PctBytes(Tail(hs))

RECURSIVE quote(_)
quote(s) ==
  IF s = <<>> THEN <<>>
  ELSE (IF s[1] \in AlwaysSafe THEN <<s[1]>> ELSE PctBytes(Utf8Hex(s[1])))
       \o quote(Tail(s))

(* ---------------------- urllib.parse.unquote(s) ------------------------ *)
\* value of a hex pair, for the pairs that can follow a "%" in the model:
\* ASCII bytes become their character, other bytes stay raw bytes
HexByte(h1, h2) ==
  CASE h1 = "2" /\ h2 = "2" -> DQ
    [] h1 = "2" /\ h2 = "0" -> " "
    [] h1 = "2" /\ h2 = "5" -> PCT
    [] h1 = "5" /\ h2 = "2" -> "R"
    [] h1 = "5" /\ h2 = "5" -> "U"
    [] h1 = "C" /\ h2 = "3" -> "xC3"
    [] h1 = "A" /\ h2 = "9" -> "xA9"

RawBytes == {"xC3", "xA9"}

\* unquote_to_bytes: "%" followed by two hex digits is one byte, any other
\* "%" stays literal
RECURSIVE unquote_to_bytes(_)
unquote_to_bytes(s) ==
  IF s = <<>> THEN <<>>
  ELSE IF s[1] = PCT /\ Len(s) >= 3 /\ s[2] \in HexDigits /\ s[3] \in HexDigits
       THEN <<HexByte(s[2], s[3])>> \o unquote_to_bytes(SubSeq(s, 4, Len(s)))
       ELSE <<s[1]>> \o unquote_to_bytes(Tail(s))

\* bytes.decode("utf-8", errors="replace") of the unquoted bytes
RECURSIVE DecodeReplace(_)
DecodeReplace(s) ==
  IF s = <<>> THEN <<>>
  ELSE IF s[1] = "xC3" /\ Len(s) >= 2 /\ s[2] = "xA9"
       THEN <<EACUTE>> \o DecodeReplace(SubSeq(s, 3, Len(s)))
       ELSE IF s[1] \in RawBytes
            THEN <<REPLACEMENT>> \o DecodeReplace(Tail(s))
            ELSE <<s[1]>> \o DecodeReplace(Tail(s))

unquote(s) == DecodeReplace(unquote_to_bytes(s))

(* -------------------- SQL double-quoted identifiers -------------------- *)
\* The engine's reading of the text  "<body>"  that an f-string builds
\* around an unescaped name: a doubled quote is one quote character, a
\* single quote ends the identifier.  BadIdent stands for a statement the
\* engine rejects (text left after the closing quote, or an empty name).
BadIdent == <<"!">>

RECURSIVE IdentBody(_)
IdentBody(s) ==
  IF s = <<>> THEN <<>>
  ELSE IF s[1] = DQ
       THEN IF Len(s) >= 2 /\ s[2] = DQ
            THEN LET rest == IdentBody(SubSeq(s, 3, Len(s)))
                 IN  IF rest = BadIdent THEN BadIdent ELSE <<DQ>> \o rest
            ELSE BadIdent
       ELSE LET rest == IdentBody(Tail(s))
            IN  IF rest = BadIdent THEN BadIdent ELSE <<s[1]>> \o rest

\* the identifier the engine reads from f'"{name}"'
QuotedIdent(name) ==
  LET body == IdentBody(name)
  IN  IF body = <<>> THEN BadIdent ELSE body

\* The engine's reading of the text  '<body>'  that an f-string builds
\* around an unescaped text: a doubled apostrophe is one apostrophe, a
\* single apostrophe ends the literal.  BadLiteral stands for a statement
\* the engine rejects (text left after the closing apostrophe).
BadLiteral == <<"!", "!">>

RECURSIVE StringLiteral(_)
StringLiteral(s) ==
  IF s = <<>> THEN <<>>
  ELSE IF s[1] = SQ
       THEN IF Len(s) >= 2 /\ s[2] = SQ
            THEN LET rest == StringLiteral(SubSeq(s, 3, Len(s)))
                 IN  IF rest = BadLiteral THEN BadLiteral ELSE <<SQ>> \o rest
            ELSE BadLiteral
       ELSE LET rest == StringLiteral(Tail(s))
            IN  IF rest = BadLiteral THEN BadLiteral ELSE <<s[1]>> \o rest

\* name.replace('"', '""')
RECURSIVE EscapeIdent(_)
EscapeIdent(s) ==
  IF s = <<>> THEN <<>>
  ELSE (IF s[1] = DQ THEN <<DQ, DQ>> ELSE <<s[1]>>) \o EscapeIdent(Tail(s))

(* --------------------- _decode_with_fallbacks -------------------------- *)
\* A codec either accepts the bytes and yields text, or rejects them.
Rejected == [ok |-> FALSE, text |-> <<>>]
Accepted(t) == [ok |-> TRUE, text |-> t]

\* characters of the code points the byte alphabet can decode to
CodePoint(n) ==
  CASE n = 116 -> "t"
    [] n = 0 -> "U+0"
    [] n = 233 -> EACUTE
    [] n = 193 -> "U+C1"

\* bytes.decode("utf-8"): one-byte and two-byte sequences
RECURSIVE Utf8Decode(_)
Utf8Decode(bs) ==
  IF bs = <<>> THEN Accepted(<<>>)
  ELSE IF bs[1] < 128
       THEN LET r == Utf8Decode(Tail(bs))
            IN  IF r.ok THEN Accepted(<<CodePoint(bs[1])>> \o r.text) ELSE Rejected
       ELSE IF bs[1] \in 194..223 /\ Len(bs) >= 2 /\ bs[2] \in 128..191
            THEN LET r == Utf8Decode(SubSeq(bs, 3, Len(bs)))
                     cp == (bs[1] % 32) * 64 + (bs[2] % 64)
                 IN  IF r.ok THEN Accepted(<<CodePoint(cp)>> \o r.text) ELSE Rejected
            ELSE Rejected

\* CP932 double-byte characters with lead byte 0x81, by trail byte
Cp932Pair(trail) ==
  CASE trail = 116 -> "U+300B"
    [] trail = 169 -> "U+2190"
    [] trail = 129 -> "U+FF1D"
    [] OTHER -> "unmapped"

\* CP932 single bytes 0xFD..0xFF, which Python maps to private-use characters
Cp932Private(b) ==
  CASE b = 253 -> "U+F8F1"
    [] b = 254 -> "U+F8F2"
    [] b = 255 -> "U+F8F3"

\* bytes.decode("cp932"): ASCII, half-width katakana (0xA1..0xDF), the
\* private-use single bytes and double-byte characters
RECURSIVE Cp932Decode(_)
Cp932Decode(bs) ==
  IF bs = <<>> THEN Accepted(<<>>)
  ELSE IF bs[1] < 128
       THEN LET r == Cp932Decode(Tail(bs))
            IN  IF r.ok THEN Accepted(<<CodePoint(bs[1])>> \o r.text) ELSE Rejected
       ELSE IF bs[1] \in 161..223
            THEN LET r == Cp932Decode(Tail(bs))
                     c == IF bs[1] = 195 THEN "U+FF83" ELSE "U+FF69"
                 IN  IF r.ok THEN Accepted(<<c>> \o r.text) ELSE Rejected
            ELSE IF bs[1] \in 253..255
            THEN LET r == Cp932Decode(Tail(bs))
                 IN  IF r.ok THEN Accepted(<<Cp932Private(bs[1])>> \o r.text)
                     ELSE Rejected
            ELSE IF Len(bs) >= 2 /\ Cp932Pair(bs[2]) # "unmapped"
                 THEN LET r == Cp932Decode(SubSeq(bs, 3, Len(bs)))
                      IN  IF r.ok THEN Accepted(<<Cp932Pair(bs[2])>> \o r.text)
                          ELSE Rejected
                 ELSE Rejected

\* bytes.decode("utf-16-sig"): Python has no codec of that name, the lookup
\* raises LookupError for every input
Utf16SigDecode(bs) == Rejected

_decode_with_fallbacks(content) ==
  IF Utf8Decode(content).ok THEN Utf8Decode(content)
  ELSE IF Cp932Decode(content).ok THEN Cp932Decode(content)
  ELSE IF Utf16SigDecode(content).ok THEN Utf16SigDecode(content)
  ELSE Rejected

Digit(d) ==
  CASE d = 0 -> "0" [] d = 1 -> "1" [] d = 2 -> "2" [] d = 3 -> "3"
    [] d = 4 -> "4" [] d = 5 -> "5" [] d = 6 -> "6" [] d = 7 -> "7"
    [] d = 8 -> "8" [] d = 9 -> "9"

\* str(n) for a natural number
RECURSIVE Decimal(_)
Decimal(n) ==
  IF n < 10 THEN <<Digit(n)>> ELSE Decimal(n \div 10) \o <<Digit(n % 10)>>

(* ---------------------------- the engine ------------------------------- *)
NoComment == <<>>

\* a table: its row count, its column count, its comment, and the names and
\* comments of its columns in column order; a new table's columns are
\* named c1, c2, ... unless the request names them
Table(rows, cols, comment) ==
  [rows |-> rows, cols |-> cols, comment |-> comment,
   columns |-> [k \in 1..cols |-> <<"c">> \o Decimal(k)],
   column_comments |-> [k \in 1..cols |-> NoComment]]

\* SHOW TABLES
ShowTables(cat) == DOMAIN cat

\* a CREATE TABLE that keeps the table already stored under the name
StoreIfAbsent(cat, name, tbl) ==
  IF name \in DOMAIN cat THEN cat
  ELSE [n \in (DOMAIN cat) \cup {name} |-> IF n = name THEN tbl ELSE cat[n]]

\* CREATE OR REPLACE TABLE name AS SELECT ... / CREATE TABLE name AS SELECT ...
StoreTable(cat, name, tbl) ==
  [n \in (DOMAIN cat) \cup {name} |-> IF n = name THEN tbl ELSE cat[n]]

\* DROP TABLE IF EXISTS name
DropIfExists(cat, name) == [n \in (DOMAIN cat) \ {name} |-> cat[n]]

\* ALTER TABLE old RENAME TO new, when the engine accepts it
MoveTable(cat, old, new) ==
  [n \in ((DOMAIN cat) \ {old}) \cup {new} |-> IF n = new THEN cat[old] ELSE cat[n]]

\* the engine accepts a rename of an existing table to a free name
CanRename(cat, old, new) ==
  /\ old # BadIdent
  /\ new # BadIdent
  /\ old \in DOMAIN cat
  /\ new \notin DOMAIN cat

\* COMMENT ON TABLE name IS 'comment'
SetComment(cat, name, comment) ==
  [cat EXCEPT ![name] = [@ EXCEPT !.comment = comment]]

\* SELECT comment FROM duckdb_tables() WHERE table_name = '{name}': the
\* comment of the table the literal names, NoComment when there is no such
\* table or no comment, and a rejected statement when the literal is broken
TableCommentOf(cat, name) ==
  LET lit == StringLiteral(name)
  IN  IF lit = BadLiteral THEN [ok |-> FALSE, comment |-> NoComment]
      ELSE IF lit \in DOMAIN cat THEN [ok |-> TRUE, comment |-> cat[lit].comment]
      ELSE [ok |-> TRUE, comment |-> NoComment]

\* SELECT column_name, comment FROM duckdb_columns() WHERE table_name =
\* '{name}' AND comment IS NOT NULL: the (column_name, comment) rows of the
\* table the literal names, in column order
ColumnCommentsOf(cat, name) ==
  LET lit == StringLiteral(name)
      rows(t) == [k \in 1..t.cols |->
                    [column_name |-> t.columns[k], comment |-> t.column_comments[k]]]
  IN  IF lit = BadLiteral THEN [ok |-> FALSE, comments |-> <<>>]
      ELSE IF lit \in DOMAIN cat
      THEN [ok |-> TRUE,
            comments |-> SelectSeq(rows(cat[lit]), LAMBDA r : r.comment # NoComment)]
      ELSE [ok |-> TRUE, comments |-> <<>>]

(* ------------------------------ upload --------------------------------- *)
\* f"table_{int(time.time())}"
SafeName(now) == <<"t", "a", "b", "l", "e", "_">> \o Decimal(now)

Ascii ==
  AlwaysSafe \cup {PCT, DQ, SQ, " "}

\* name.encode('ascii') raises
_needs_safe_name(name) == \E i \in 1..Len(name) : name[i] \notin Ascii

(* import_duckdb_file: copy the tables of the dump, in SHOW TABLES order,   *)
(* into the main catalog.  failAt = i makes the copy of the i-th table     *)
(* fail in both the ATTACH path and the fallback path; the exception       *)
(* leaves the loop after the DROP TABLE IF EXISTS of that table.  The     *)
(* copy carries rows and columns; the comments are then looked up in the   *)
(* dump by  WHERE table_name = '{table_name}'  and set on the copy, and a  *)
(* failing lookup is logged and skipped.                                   *)

\* the catalog of the uploaded dump (import_conn)
DumpCatalog(dump) ==
  [n \in {dump[i].name : i \in 1..Len(dump)} |->
     LET t == dump[CHOOSE i \in 1..Len(dump) : dump[i].name = n]
     IN  [rows |-> t.rows, cols |-> t.cols, comment |-> t.comment,
          columns |-> t.columns, column_comments |-> t.column_comments]]

\* the copy after the loop over the rows the lookup returned: COMMENT ON
\* COLUMN "{safe_table_name}"."{safe_column_name}" for each row in turn; the
\* first row whose column the copy does not have raises, and the exception
\* ends the loop
RECURSIVE CopiedColumnComments(_, _)
CopiedColumnComments(tbl, found) ==
  IF found = <<>> THEN tbl
  ELSE LET hits == {k \in 1..tbl.cols : tbl.columns[k] = found[1].column_name}
       IN  IF hits = {} THEN tbl
           ELSE CopiedColumnComments(
                  [tbl EXCEPT !.column_comments[CHOOSE k \in hits : TRUE] =
                                found[1].comment],
                  Tail(found))

RECURSIVE ImportTables(_, _, _, _)
ImportTables(cat, dump, i, failAt) ==
  IF i > Len(dump) THEN [ok |-> TRUE, cat |-> cat, copied |-> i - 1]
  ELSE LET table_name == dump[i].name
           safe_table_name == QuotedIdent(EscapeIdent(table_name))
           dropped == DropIfExists(cat, safe_table_name)
           created == StoreTable(dropped, safe_table_name,
                                 [Table(dump[i].rows, dump[i].cols, NoComment)
                                    EXCEPT !.columns = dump[i].columns])
           table_comment == TableCommentOf(DumpCatalog(dump), table_name)
           commented == IF table_comment.ok /\ table_comment.comment # NoComment
                        THEN SetComment(created, safe_table_name, table_comment.comment)
                        ELSE created
           column_comments == ColumnCommentsOf(DumpCatalog(dump), table_name)
           copied == IF column_comments.ok
                     THEN [commented EXCEPT ![safe_table_name] =
                             CopiedColumnComments(@, column_comments.comments)]
                     ELSE commented
       IN  IF failAt = i
           THEN [ok |-> FALSE, cat |-> dropped, copied |-> i - 1]
           ELSE ImportTables(copied, dump, i + 1, failAt)

import_duckdb_file(cat, dump, failAt) == ImportTables(cat, dump, 1, failAt)

\* names of the first n tables of a dump
DumpNamesUpTo(dump, n) == {dump[i].name : i \in 1..n}

\* the response built by the outer "except Exception" of upload_file: every
\* exception, an HTTPException included, becomes a 500 whose detail carries
\* the text of the exception
UploadFailed(cat, diag, open, temps, own) ==
  [cat |-> cat, status |-> 500, diag |-> diag, table |-> <<>>, row_count |-> 0,
   imported |-> {}, open |-> open, temps |-> temps, own |-> own]

UploadDone(cat, table, row_count, imported, open, own) ==
  [cat |-> cat, status |-> 200, diag |-> "ok", table |-> table,
   row_count |-> row_count, imported |-> imported, open |-> open, temps |-> 0,
   own |-> own]

\* CREATE OR REPLACE TABLE "{table_name}" AS SELECT * FROM read_csv_auto(...)
UploadCsvCreate(cat, req) ==
  StoreTable(cat, QuotedIdent(quote(req.stem)),
             Table(req.shape.rows, req.shape.cols, NoComment))

\* the .csv / .tsv branch of upload_file after the table is created: rename
\* to the generated name and comment, validation, response
UploadCsvFinish(created, req, now) ==
  LET original_table_name == req.stem
      table_name == quote(original_table_name)
      decoded_original == unquote(original_table_name)
      rename_to_safe == _needs_safe_name(decoded_original)
      safe_table_name == IF rename_to_safe THEN SafeName(now) ELSE table_name
      must_rename == rename_to_safe /\ safe_table_name # table_name
      renamed == MoveTable(created, QuotedIdent(table_name),
                           QuotedIdent(safe_table_name))
      commented == SetComment(renamed, QuotedIdent(safe_table_name), decoded_original)
      final_name == IF must_rename THEN safe_table_name ELSE table_name
      stored == IF must_rename THEN commented ELSE created
      row_count == stored[QuotedIdent(final_name)].rows
      column_count == stored[QuotedIdent(final_name)].cols
      dropped == DropIfExists(stored, QuotedIdent(final_name))
  IN  IF must_rename
         /\ ~CanRename(created, QuotedIdent(table_name), QuotedIdent(safe_table_name))
      THEN UploadFailed(created, "engine", 1, 0, {table_name})
      ELSE IF column_count = 0
      THEN UploadFailed(dropped, "no_columns", 1, 0, {})
      ELSE IF row_count = 0
      THEN UploadFailed(dropped, "no_rows", 1, 0, {})
      ELSE UploadDone(stored, final_name, row_count, {}, 0, {final_name})

\* the .csv / .tsv branch of upload_file, from CREATE OR REPLACE TABLE on
UploadCsv(cat, req, now) ==
  IF req.fault = "create"
  THEN UploadFailed(cat, "engine", 1, 0, {})
  ELSE UploadCsvFinish(UploadCsvCreate(cat, req), req, now)

\* the .duckdb branch of upload_file
UploadDump(cat, req) ==
  LET imp == import_duckdb_file(cat, req.dump, req.failAt)
      tables_result == ShowTables(imp.cat)
  IN  IF req.fault = "create"
      THEN UploadFailed(cat, "engine", 1, 0, {})
      ELSE IF ~imp.ok
      THEN UploadFailed(imp.cat, "engine", 2, 0, DumpNamesUpTo(req.dump, imp.copied))
      ELSE UploadDone(imp.cat, <<"imported_database">>, Cardinality(tables_result),
                      tables_result, 1, DumpNamesUpTo(req.dump, imp.copied))

\* POST /upload, after the file has been read
upload_file(cat, req, now) ==
  IF req.ext # "duckdb" /\ ~_decode_with_fallbacks(req.bytes).ok
  THEN UploadFailed(cat, "encoding", 1, 0, {})
  ELSE IF req.fault = "write"
  THEN UploadFailed(cat, "io", 1, 1, {})
  ELSE IF req.ext \in {"csv", "tsv"} THEN UploadCsv(cat, req, now)
  ELSE IF req.ext = "duckdb" THEN UploadDump(cat, req)
  ELSE UploadFailed(cat, "unsupported_type", 1, 0, {})

(* --------------------- statements of the engine ------------------------ *)
Smaller(a, b) == IF a <= b THEN a ELSE b

LowerLetters ==
  <<"a", "b", "c", "d", "e", "f", "g", "h", "i", "j", "k", "l", "m",
    "n", "o", "p", "q", "r", "s", "t", "u", "v", "w", "x", "y", "z">>
UpperLetters ==
  <<"A", "B", "C", "D", "E", "F", "G", "H", "I", "J", "K", "L", "M",
    "N", "O", "P", "Q", "R", "S", "T", "U", "V", "W", "X", "Y", "Z">>

UpperChar(c) ==
  IF \E i \in 1..26 : LowerLetters[i] = c
  THEN UpperLetters[CHOOSE i \in 1..26 : LowerLetters[i] = c]
  ELSE c

\* str.upper()
Upper(s) == [i \in 1..Len(s) |-> UpperChar(s[i])]

\* str.strip(), str.rstrip(chars)
RECURSIVE LStrip(_, _)
LStrip(s, chars) ==
  IF s # <<>> /\ s[1] \in chars THEN LStrip(Tail(s), chars) ELSE s

RECURSIVE RStrip(_, _)
RStrip(s, chars) ==
  IF s # <<>> /\ s[Len(s)] \in chars THEN RStrip(SubSeq(s, 1, Len(s) - 1), chars) ELSE s

Whitespace == {" "}
Strip(s) == RStrip(LStrip(s, Whitespace), Whitespace)

\* str.startswith(prefix), sub in str
StartsWith(s, prefix) ==
  Len(s) >= Len(prefix) /\ SubSeq(s, 1, Len(prefix)) = prefix

HasSubstring(s, sub) ==
  \E i \in 1..(Len(s) - Len(sub) + 1) : SubSeq(s, i, i + Len(sub) - 1) = sub

KwSELECT == <<"S", "E", "L", "E", "C", "T">>
KwLIMIT == <<"L", "I", "M", "I", "T">>
KwFROM == <<"F", "R", "O", "M">>
KwDROP == <<"D", "R", "O", "P">>
KwTABLE == <<"T", "A", "B", "L", "E">>

\* the engine's reading of a statement: words separated by blanks
RECURSIVE Words(_, _)
Words(s, word) ==
  IF s = <<>> THEN (IF word = <<>> THEN <<>> ELSE <<word>>)
  ELSE IF s[1] \in Whitespace
       THEN (IF word = <<>> THEN <<>> ELSE <<word>>) \o Words(Tail(s), <<>>)
       ELSE Words(Tail(s), Append(word, s[1]))

\* statements of a query text, separated by ";"
RECURSIVE Statements(_, _)
Statements(s, stmt) ==
  IF s = <<>> THEN <<stmt>>
  ELSE IF s[1] = ";" THEN <<stmt>> \o Statements(Tail(s), <<>>)
       ELSE Statements(Tail(s), Append(stmt, s[1]))

\* the number a word of digits denotes, or -1
NumberOf(w) ==
  IF \E n \in 0..MaxNumber : Decimal(n) = w
  THEN CHOOSE n \in 0..MaxNumber : Decimal(n) = w
  ELSE -1

\* one parsed statement: SELECT * FROM name [LIMIT n], DROP TABLE name, an
\* empty statement, or a syntax error
ParseStatement(stmt) ==
  LET w == Words(stmt, <<>>)
      kw(i) == Upper(w[i])
  IN  IF Len(w) = 0 THEN [kind |-> "empty", table |-> <<>>, limit |-> -1]
      ELSE IF Len(w) = 4 /\ kw(1) = KwSELECT /\ w[2] = <<"*">> /\ kw(3) = KwFROM
      THEN [kind |-> "select", table |-> w[4], limit |-> -1]
      ELSE IF Len(w) = 6 /\ kw(1) = KwSELECT /\ w[2] = <<"*">> /\ kw(3) = KwFROM
              /\ kw(5) = KwLIMIT /\ NumberOf(w[6]) >= 0
      THEN [kind |-> "select", table |-> w[4], limit |-> NumberOf(w[6])]
      ELSE IF Len(w) = 3 /\ kw(1) = KwDROP /\ kw(2) = KwTABLE
      THEN [kind |-> "drop", table |-> w[3], limit |-> -1]
      ELSE [kind |-> "error", table |-> <<>>, limit |-> -1]

\* conn.execute(query).fetchall(): every statement must parse; they run in
\* order and the rows of the last one are fetched
RECURSIVE RunStatements(_, _, _)
RunStatements(cat, stmts, rows) ==
  IF stmts = <<>> THEN [ok |-> TRUE, cat |-> cat, rows |-> rows]
  ELSE LET st == ParseStatement(stmts[1])
       IN  IF st.kind = "empty" THEN RunStatements(cat, Tail(stmts), rows)
           ELSE IF st.table \notin DOMAIN cat
           THEN [ok |-> FALSE, cat |-> cat, rows |-> 0]
           ELSE IF st.kind = "select"
           THEN RunStatements(cat, Tail(stmts),
                  IF st.limit >= 0 THEN Smaller(cat[st.table].rows, st.limit)
                  ELSE cat[st.table].rows)
           ELSE RunStatements(DropIfExists(cat, st.table), Tail(stmts), 0)

Execute(cat, query) ==
  LET stmts == Statements(query, <<>>)
  IN  IF \E i \in 1..Len(stmts) : ParseStatement(stmts[i]).kind = "error"
      THEN [ok |-> FALSE, cat |-> cat, rows |-> 0]
      ELSE RunStatements(cat, stmts, 0)

\* an identifier written without quotes: a letter or "_" followed by
\* letters, digits and "_" (names are lower-case in the model)
IdentStart == {LowerLetters[i] : i \in 1..26} \cup {UpperLetters[i] : i \in 1..26} \cup {"_"}
IdentPart ==
  IdentStart \cup {"0", "1", "2", "3", "4", "5", "6", "7", "8", "9"}

UnquotedIdent(name) ==
  IF name # <<>> /\ name[1] \in IdentStart /\ \A i \in 1..Len(name) : name[i] \in IdentPart
  THEN name
  ELSE BadIdent

(* -------------------------- table endpoints ---------------------------- *)
Resolved(name) == [ok |-> TRUE, name |-> name]
Unresolved == [ok |-> FALSE, name |-> <<>>]

Least(S) == CHOOSE i \in S : \A j \in S : i <= j

\* a resolver that never tries the percent-encoded form
ResolveWithoutEncoded(cat, path_name) ==
  IF path_name \in ShowTables(cat) THEN Resolved(path_name)
  ELSE IF unquote(path_name) \in ShowTables(cat) THEN Resolved(unquote(path_name))
  ELSE Unresolved

\* the first of [path_name, unquote(path_name), quote(path_name, safe='')]
\* that SHOW TABLES lists, or HTTP 404
_resolve_table_name(cat, path_name) ==
  LET existing == ShowTables(cat)
      candidates == <<path_name, unquote(path_name), quote(path_name)>>
      hits == {i \in 1..3 : candidates[i] \in existing}
  IN  IF hits = {} THEN Unresolved ELSE Resolved(candidates[Least(hits)])

\* result of a table endpoint: the catalog it leaves, the response, and the
\* connections it opened and did not close
Answer(cat, status, diag, table, row_count, comment, open) ==
  [cat |-> cat, status |-> status, diag |-> diag, table |-> table,
   row_count |-> row_count, comment |-> comment, open |-> open]

\* "except Exception" of an endpoint: any exception, the resolver's
\* HTTPException(404) included, is answered with status 500
ServerError(cat, diag) == Answer(cat, 500, diag, <<>>, 0, NoComment, 1)

\* GET /query/{table_name}?limit=
query_table(cat, table_name, limit) ==
  LET resolved == _resolve_table_name(cat, table_name)
      ident == QuotedIdent(resolved.name)
  IN  IF ~resolved.ok THEN ServerError(cat, "not_found")
      ELSE IF ident \notin DOMAIN cat THEN ServerError(cat, "engine")
      ELSE Answer(cat, 200, "ok", resolved.name,
                  Smaller(cat[ident].rows, limit), NoComment, 0)

\* GET /table/{table_name}/schema
get_table_schema(cat, table_name) ==
  LET resolved == _resolve_table_name(cat, table_name)
      ident == QuotedIdent(resolved.name)
  IN  IF ~resolved.ok THEN ServerError(cat, "not_found")
      ELSE IF ident \notin DOMAIN cat THEN ServerError(cat, "engine")
      ELSE Answer(cat, 200, "ok", resolved.name, cat[ident].cols, NoComment, 0)

\* GET /table/{table_name}/metadata: row count and columns through the
\* quoted identifier, comments through  WHERE table_name = '{resolved}';
\* a column without a comment row is answered with ""
get_table_metadata(cat, table_name) ==
  LET resolved == _resolve_table_name(cat, table_name)
      ident == QuotedIdent(resolved.name)
      column_comments == ColumnCommentsOf(cat, resolved.name)
  IN  IF ~resolved.ok THEN ServerError(cat, "not_found")
      ELSE IF ident \notin DOMAIN cat THEN ServerError(cat, "engine")
      ELSE [cat |-> cat, status |-> 200, diag |-> "ok", table |-> resolved.name,
            row_count |-> cat[ident].rows,
            comment |-> TableCommentOf(cat, resolved.name).comment,
            columns |-> [k \in 1..cat[ident].cols |->
                           LET found == column_comments.comments
                               rows == {j \in 1..Len(found) :
                                          found[j].column_name = cat[ident].columns[k]}
                           IN  IF rows = {} THEN NoComment
                               ELSE found[CHOOSE j \in rows : \A i \in rows : i <= j].comment],
            open |-> 0]

\* DELETE /table/{table_name}
delete_table(cat, table_name) ==
  LET resolved == _resolve_table_name(cat, table_name)
      ident == QuotedIdent(resolved.name)
  IN  IF ~resolved.ok THEN ServerError(cat, "not_found")
      ELSE IF ident = BadIdent THEN ServerError(cat, "engine")
      ELSE Answer(DropIfExists(cat, ident), 200, "ok", resolved.name, 0, NoComment, 0)

\* PUT /table/{table_name}/rename: HTTPException is re-raised as it is, any
\* other exception is answered with status 500
rename_table(cat, table_name, new_name) ==
  LET resolved == _resolve_table_name(cat, table_name)
      existing_names == ShowTables(cat)
      old == QuotedIdent(resolved.name)
      new == QuotedIdent(new_name)
  IN  IF ~resolved.ok
      THEN Answer(cat, 404, "not_found", <<>>, 0, NoComment, 1)
      ELSE IF new_name \in existing_names
      THEN Answer(cat, 400, "name_collision", <<>>, 0, NoComment, 0)
      ELSE IF ~CanRename(cat, old, new) THEN ServerError(cat, "engine")
      ELSE Answer(MoveTable(cat, old, new), 200, "ok", new_name, 0, NoComment, 0)

\* PUT /table/{table_name}/comment: COMMENT ON TABLE "{table_name}" IS
\* '{comment}', with the path name as it came and the comment unescaped
update_table_comment(cat, table_name, comment) ==
  LET ident == QuotedIdent(table_name)
      text == StringLiteral(comment)
  IN  IF ident \notin DOMAIN cat \/ text = BadLiteral THEN ServerError(cat, "engine")
      ELSE Answer(SetComment(cat, ident, text), 200, "ok", table_name, 0, comment, 0)

\* PUT /table/{table_name}/column/{column_name}/comment: COMMENT ON COLUMN
\* "{table_name}".{column_name} IS '{comment}', with the path name as it
\* came, the column name without quotes and the comment unescaped
update_column_comment(cat, table_name, column_name, comment) ==
  LET ident == QuotedIdent(table_name)
      column == UnquotedIdent(column_name)
      text == StringLiteral(comment)
      hits == {k \in 1..cat[ident].cols : cat[ident].columns[k] = column}
  IN  IF column = BadIdent \/ text = BadLiteral THEN ServerError(cat, "engine")
      ELSE IF ident \notin DOMAIN cat THEN ServerError(cat, "engine")
      ELSE IF hits = {} THEN ServerError(cat, "engine")
      ELSE Answer([cat EXCEPT ![ident] =
                     [@ EXCEPT !.column_comments[CHOOSE k \in hits : TRUE] = text]],
                  200, "ok", table_name, 0, comment, 0)

\* PUT /table/{table_name}/column/{column_name}?new_name=: ALTER TABLE
\* "{table_name}" RENAME COLUMN {column_name} TO {new_name}, with the path
\* name as it came and both column names without quotes, so the text after
\* RENAME COLUMN is read as the engine reads it: the rename, then every
\* statement that follows a ";".  Any failure is answered with status 500
\* and leaves the connection open.
update_column_name(cat, table_name, column_name, new_name) ==
  LET ident == QuotedIdent(table_name)
      stmts == Statements(column_name \o <<" ", "T", "O", " ">> \o new_name, <<>>)
      w == Words(stmts[1], <<>>)
      parsed == /\ ident # BadIdent
                /\ Len(w) = 3
                /\ Upper(w[2]) = <<"T", "O">>
                /\ UnquotedIdent(w[1]) # BadIdent
                /\ UnquotedIdent(w[3]) # BadIdent
                /\ \A i \in 2..Len(stmts) : ParseStatement(stmts[i]).kind # "error"
      hits == {k \in 1..cat[ident].cols : cat[ident].columns[k] = w[1]}
      renamed == [cat EXCEPT ![ident] =
                    [@ EXCEPT !.columns[CHOOSE k \in hits : TRUE] = w[3]]]
      rest == RunStatements(renamed, Tail(stmts), 0)
  IN  IF ~parsed THEN ServerError(cat, "engine")
      ELSE IF ident \notin DOMAIN cat THEN ServerError(cat, "engine")
      ELSE IF hits = {} \/ \E k \in 1..cat[ident].cols : cat[ident].columns[k] = w[3]
      THEN ServerError(cat, "engine")
      ELSE IF ~rest.ok THEN ServerError(rest.cat, "engine")
      ELSE Answer(rest.cat, 200, "ok", table_name, 0, NoComment, 0)

(* ------------------------------ inputs --------------------------------- *)
StemChars == {"t", EACUTE}
Stems == NonEmptySeqs(StemChars, MaxStem)

ByteVals == {116, 195, 169, 129}
ByteSeqs == NonEmptySeqs(ByteVals, MaxBytes)

\* what the engine's reader finds in the staged text: a table without
\* columns has no rows
Shapes == {[cols |-> 0, rows |-> 0]} \cup [cols : 1..MaxCols, rows : 0..MaxRows]

DumpTable(name) ==
  [name : {name}, rows : {MaxRows}, cols : {1}, comment : {<<"d">>},
   columns : {<<<<"c", "1">>>>}, column_comments : {<<<<"k">>>>}]

\* dumps list their tables in name order
Dumps ==
  {<<>>}
  \cup {<<a>> : a \in DumpTable(<<"d">>)}
  \cup {<<b>> : b \in DumpTable(<<"t">>)}
  \cup {<<a, b>> : a \in DumpTable(<<"d">>), b \in DumpTable(<<"t">>)}

TextRequests ==
  [stem : Stems, ext : {"csv", "tsv", "txt"}, bytes : ByteSeqs, shape : Shapes,
   dump : {<<>>}, fault : {"none", "write", "create"}, failAt : {0}]

DumpRequests ==
  [stem : Stems, ext : {"duckdb"}, bytes : {<<>>}, shape : {[cols |-> 0, rows |-> 0]},
   dump : Dumps, fault : {"none", "write", "create"}, failAt : {0}]
  \cup
  [stem : Stems, ext : {"duckdb"}, bytes : {<<>>}, shape : {[cols |-> 0, rows |-> 0]},
   dump : Dumps, fault : {"none"}, failAt : 1..2]

UploadRequests == TextRequests \cup DumpRequests

(* ------------------------------- state --------------------------------- *)
\* catalog:  the tables of the main database
\* clock:    the wall clock, in seconds
\* pending:  the upload whose file is being read (await file.read())
\* resp:     the response to the last request handled
VARIABLES catalog, clock, pending, resp
vars == <<catalog, clock, pending, resp>>

EmptyCatalog == [n \in {} |-> Table(0, 0, NoComment)]

NoRequest == [ext |-> "none"]

NoResp ==
  [op |-> "none", status |-> 0, diag |-> "none", table |-> <<>>, row_count |-> 0,
   imported |-> {}, open |-> 0, temps |-> 0, own |-> {}]

Init ==
  /\ catalog = EmptyCatalog
  /\ clock = 1
  /\ pending = NoRequest
  /\ resp = NoResp

\* the wall clock passes to the next second
Tick ==
  /\ clock < MaxClock
  /\ clock' = clock + 1
  /\ UNCHANGED <<catalog, pending, resp>>

\* POST /upload arrives; the handler suspends in "await file.read()"
UploadReceive ==
  /\ pending = NoRequest
  /\ \E req \in UploadRequests : pending' = req
  /\ resp' = NoResp
  /\ UNCHANGED <<catalog, clock>>

\* the rest of upload_file runs without a suspension point
UploadHandle ==
  /\ pending # NoRequest
  /\ LET r == upload_file(catalog, pending, clock)
     IN  /\ catalog' = r.cat
         /\ resp' = [op |-> "upload", status |-> r.status, diag |-> r.diag,
                     table |-> r.table, row_count |-> r.row_count,
                     imported |-> r.imported, open |-> r.open, temps |-> r.temps,
                     own |-> r.own]
  /\ pending' = NoRequest
  /\ UNCHANGED clock

Next == Tick \/ UploadReceive \/ UploadHandle

Spec == Init /\ [][Next]_vars

(* ------------------------ decoding, on its own ------------------------- *)
\* file contents: "t", NUL, a CP932 lead byte and the two bytes of a UTF-16
\* byte-order mark
ContentBytes == {116, 0, 129, 254, 255}
Contents == NonEmptySeqs(ContentBytes, MaxContent)

InitDecode ==
  /\ catalog = EmptyCatalog
  /\ clock = 1
  /\ pending \in [op : {"decode"}, content : Contents]
  /\ resp = NoResp

Decode ==
  /\ pending # NoRequest
  /\ LET r == _decode_with_fallbacks(pending.content)
     IN  resp' = [op |-> "decode", content |-> pending.content, ok |-> r.ok,
                  text |-> r.text]
  /\ pending' = NoRequest
  /\ UNCHANGED <<catalog, clock>>

NextDecode == Decode

SpecDecode == InitDecode /\ [][NextDecode]_vars

(* --------------------- .csv / .tsv upload, on its own ------------------ *)
\* a table stored before the upload, with more rows than any uploaded file
PriorTable == Table(MaxRows + 1, 1, NoComment)

\* the names an upload of the model can store a table under
CsvNames == {quote(stem) : stem \in Stems} \cup {SafeName(1)}

CsvCatalogs == UNION {[S -> {PriorTable}] : S \in SubsetsUpTo(CsvNames, MaxTables)}

InitCsv ==
  /\ catalog \in CsvCatalogs
  /\ clock = 1
  /\ pending \in TextRequests
  /\ resp = NoResp

NextCsv == UploadHandle

SpecCsv == InitCsv /\ [][NextCsv]_vars

(* ---------------------- dump import, on its own ------------------------ *)
\* table names of uploaded dumps, in the order SHOW TABLES lists them
ImportNames == <<<<SQ>>, <<SQ, SQ>>, <<"d">>>>

\* a table of a dump: one column named a or b, with or without a table
\* comment and a column comment
ImportTable(name) ==
  [name : {name}, rows : {MaxRows}, cols : {1}, comment : {NoComment, <<"c">>},
   columns : {<<<<"a">>>>, <<<<"b">>>>}, column_comments : {<<NoComment>>, <<<<"k">>>>}]

\* the dumps whose tables are named by a subsequence of names
RECURSIVE DumpsOver(_)
DumpsOver(names) ==
  IF names = <<>> THEN {<<>>}
  ELSE LET rest == DumpsOver(Tail(names))
       IN  rest \cup {<<t>> \o r : t \in ImportTable(Head(names)), r \in rest}

\* the tables the main database holds before the upload have a comment and
\* a column comment of their own
ImportCatalogs ==
  UNION {[S -> {[Table(1, 1, <<"o">>) EXCEPT !.column_comments = <<<<"o">>>>]}] :
           S \in SubsetsUpTo({ImportNames[i] : i \in 1..Len(ImportNames)}, MaxTables)}

ImportRequests ==
  [stem : {<<"t">>}, ext : {"duckdb"}, bytes : {<<>>},
   shape : {[cols |-> 0, rows |-> 0]}, dump : DumpsOver(ImportNames),
   fault : {"none"}, failAt : 0..Len(ImportNames)]

InitImport ==
  /\ catalog \in ImportCatalogs
  /\ clock = 1
  /\ pending \in ImportRequests
  /\ resp = NoResp

NextImport == UploadHandle

SpecImport == InitImport /\ [][NextImport]_vars

(* ----------------------- resolver, on its own -------------------------- *)
PathChars == {"t", PCT, EACUTE}

\* path names a client sends: short names, and their percent-encoded forms
PathNames ==
  LET base == NonEmptySeqs(PathChars, MaxPath)
  IN  base \cup {quote(n) : n \in base}

\* catalogs of at most MaxTables tables
Catalogs(names) ==
  UNION {[S -> {Table(MaxRows, 1, NoComment)}] : S \in SubsetsUpTo(names, MaxTables)}

InitResolve ==
  /\ catalog \in Catalogs(PathNames)
  /\ clock = 1
  /\ pending \in {[op |-> "resolve", path |-> p] : p \in PathNames}
  /\ resp = NoResp

Resolve ==
  /\ pending # NoRequest
  /\ LET p == pending.path
         r == _resolve_table_name(catalog, p)
     IN  resp' = [op |-> "resolve", path |-> p, ok |-> r.ok, name |-> r.name]
  /\ pending' = NoRequest
  /\ UNCHANGED <<catalog, clock>>

NextResolve == Resolve

SpecResolve == InitResolve /\ [][NextResolve]_vars

(* ----------------------- table endpoints, run -------------------------- *)
\* path names sent to the table endpoints
TablePaths ==
  LET base == NonEmptySeqs({"t", PCT}, MaxPath)
  IN  base \cup {quote(n) : n \in base}

\* new names sent to the rename endpoint
NewNames == NonEmptySeqs({"t", DQ}, MaxPath)

Limits == {1, MaxRows + 1}

TableCatalogs ==
  UNION {[S -> {Table(r, 1, NoComment) : r \in 1..MaxRows}] :
           S \in SubsetsUpTo(TablePaths, MaxTables)}

InitTables ==
  /\ catalog \in TableCatalogs
  /\ clock = 1
  /\ pending = NoRequest
  /\ resp = NoResp

\* the response of a table endpoint, with the request it answers
TableResp(op, path, new_name, r) ==
  [op |-> op, path |-> path, new |-> new_name, status |-> r.status,
   diag |-> r.diag, table |-> r.table, row_count |-> r.row_count,
   comment |-> r.comment, open |-> r.open]

QueryTable ==
  \E p \in TablePaths \cup DOMAIN catalog, limit \in Limits :
    LET r == query_table(catalog, p, limit)
    IN  /\ catalog' = r.cat
        /\ resp' = TableResp("query", p, <<>>, r)
        /\ UNCHANGED <<clock, pending>>

GetTableSchema ==
  \E p \in TablePaths \cup DOMAIN catalog :
    LET r == get_table_schema(catalog, p)
    IN  /\ catalog' = r.cat
        /\ resp' = TableResp("schema", p, <<>>, r)
        /\ UNCHANGED <<clock, pending>>

GetTableMetadata ==
  \E p \in TablePaths \cup DOMAIN catalog :
    LET r == get_table_metadata(catalog, p)
    IN  /\ catalog' = r.cat
        /\ resp' = TableResp("metadata", p, <<>>, r)
        /\ UNCHANGED <<clock, pending>>

DeleteTable ==
  \E p \in TablePaths \cup DOMAIN catalog :
    LET r == delete_table(catalog, p)
    IN  /\ catalog' = r.cat
        /\ resp' = TableResp("delete", p, <<>>, r)
        /\ UNCHANGED <<clock, pending>>

RenameTable ==
  \E p \in TablePaths \cup DOMAIN catalog, new_name \in NewNames :
    LET r == rename_table(catalog, p, new_name)
    IN  /\ catalog' = r.cat
        /\ resp' = TableResp("rename", p, new_name, r)
        /\ UNCHANGED <<clock, pending>>

NextTables ==
  QueryTable \/ GetTableSchema \/ GetTableMetadata \/ DeleteTable \/ RenameTable

SpecTables == InitTables /\ [][NextTables]_vars

(* ------------------ column and comment endpoints, run ----------------- *)
\* the column and comment endpoints run on catalogs of at most one table
InitComments ==
  /\ catalog \in {cat \in TableCatalogs : Cardinality(DOMAIN cat) <= 1}
  /\ clock = 1
  /\ pending = NoRequest
  /\ resp = NoResp

UpdateTableComment ==
  \E p \in TablePaths \cup DOMAIN catalog, comment \in {<<"c">>, <<SQ>>} :
    LET r == update_table_comment(catalog, p, comment)
    IN  /\ catalog' = r.cat
        /\ resp' = [op |-> "comment", path |-> p, column |-> 0, put |-> comment,
                     status |-> r.status, diag |-> r.diag, open |-> r.open]
        /\ UNCHANGED <<clock, pending>>

UpdateColumnComment ==
  \E p \in TablePaths \cup DOMAIN catalog, column \in {<<"c", "1">>, <<"z">>},
     comment \in {<<"c">>, <<SQ>>} :
    LET r == update_column_comment(catalog, p, column, comment)
    IN  /\ catalog' = r.cat
        /\ resp' = [op |-> "column_comment", path |-> p, column |-> column,
                     put |-> comment, status |-> r.status, diag |-> r.diag,
                     open |-> r.open]
        /\ UNCHANGED <<clock, pending>>

UpdateColumnName ==
  \E p \in TablePaths \cup DOMAIN catalog,
     column_name \in {<<"c", "1">>, <<"z">>},
     new_name \in {<<"x">>, <<"x", ";", "D", "R", "O", "P", " ", "T", "A", "B", "L", "E", " ", "t">>} :
    LET r == update_column_name(catalog, p, column_name, new_name)
    IN  /\ catalog' = r.cat
        /\ resp' = TableResp("rename_column", p, new_name, r)
        /\ UNCHANGED <<clock, pending>>

NextComments ==
  \/ UpdateTableComment
  \/ UpdateColumnComment
  \/ UpdateColumnName
  \/ GetTableMetadata

SpecComments == InitComments /\ [][NextComments]_vars

(* --------------------------- MCP tool calls ---------------------------- *)
\* the try block of _execute_query for a query text, with f"{limit}"
\* already formatted: an engine failure is caught and answered as a text
RunQuery(cat, query, limit_text) ==
  LET add_limit == StartsWith(Upper(Strip(query)), KwSELECT)
                     /\ ~HasSubstring(Upper(query), KwLIMIT)
      final == IF add_limit
               THEN RStrip(query, {";"}) \o <<" ">> \o KwLIMIT \o <<" ">> \o limit_text
               ELSE query
      result == Execute(cat, final)
  IN  [cat |-> result.cat, final |-> final, error |-> ~result.ok,
       rows |-> result.rows, open |-> IF result.ok THEN 0 ELSE 1, raised |-> FALSE]

\* LocalDBMCPServer._execute_query
_execute_query(cat, query, limit) == RunQuery(cat, query, Decimal(limit))

\* handle_call_tool, tool "execute_query": limit defaults to DefaultLimit
handle_call_tool(cat, query, limit_arg) ==
  _execute_query(cat, query, IF limit_arg = <<>> THEN DefaultLimit ELSE limit_arg[1])

Queries ==
  {<<"S", "E", "L", "E", "C", "T", " ", "*", " ", "F", "R", "O", "M", " ", "t">>,
   <<"s", "e", "l", "e", "c", "t", " ", "*", " ", "f", "r", "o", "m", " ", "t", ";">>,
   <<" ", " ", "S", "E", "L", "E", "C", "T", " ", "*", " ", "F", "R", "O", "M", " ", "t">>,
   <<"S", "E", "L", "E", "C", "T", " ", "*", " ", "F", "R", "O", "M", " ", "t", ";", " ">>,
   <<"S", "E", "L", "E", "C", "T", " ", "*", " ", "F", "R", "O", "M", " ", "l", "i", "m", "i", "t", "s">>,
   <<"S", "E", "L", "E", "C", "T", " ", "*", " ", "F", "R", "O", "M", " ", "t", " ", "L", "I", "M", "I", "T", " ", "2">>,
   <<"S", "E", "L", "E", "C", "T", " ", "*", " ", "F", "R", "O", "M", " ", "l", "i", "m", "i", "t", "s", " ", "l", "i", "m", "i", "t", " ", "2">>,
   <<"D", "R", "O", "P", " ", "T", "A", "B", "L", "E", " ", "t">>}

LimitArgs == {<<>>, <<1>>, <<MaxRows>>}

TLimits == <<"l", "i", "m", "i", "t", "s">>

\* the tables the queries name, with few rows or more than the default limit
McpCatalogs ==
  [{<<"t">>, TLimits} -> {Table(r, 1, NoComment) : r \in {MaxRows, DefaultLimit + 1}}]

InitMcp ==
  /\ catalog \in McpCatalogs
  /\ clock = 1
  /\ pending = NoRequest
  /\ resp = NoResp

ExecuteQuery ==
  \E query \in Queries, limit_arg \in LimitArgs :
    LET r == handle_call_tool(catalog, query, limit_arg)
    IN  /\ catalog' = r.cat
        /\ resp' = [op |-> "execute_query", query |-> query, limit |-> limit_arg,
                    final |-> r.final, error |-> r.error, rows |-> r.rows,
                    open |-> r.open]
        /\ UNCHANGED <<clock, pending>>

NextMcp == ExecuteQuery

SpecMcp == InitMcp /\ [][NextMcp]_vars

(* ----------------------- MCP tools, every call ------------------------- *)
\* An optional argument is a sequence: <<>> when the key is missing (dict.get
\* returns None), <<v>> when it is given.

\* _execute_query(None, limit): query[:100] raises TypeError inside the try
\* block, before the connection is opened, and query[:50] raises it again
\* inside the except block, so the exception leaves the handler
ExecuteNone(cat) ==
  [cat |-> cat, final |-> <<>>, error |-> TRUE, rows |-> 0, open |-> 0,
   raised |-> TRUE]

\* what a tool call returns
ToolResult(cat, kind, raised, rows, cols, counts, open) ==
  [cat |-> cat, kind |-> kind, raised |-> raised, rows |-> rows, cols |-> cols,
   counts |-> counts, open |-> open]

NoCounts == [n \in {} |-> 0]

\* the cell of the table list for a table whose COUNT(*) failed
CountError == 0 - 1

\* LocalDBMCPServer._get_table_info
_get_table_info(cat, table_name_arg) ==
  IF table_name_arg # <<>> /\ table_name_arg[1] # <<>>
  THEN LET table_name == table_name_arg[1]
           ident == UnquotedIdent(table_name)
       IN  IF table_name \notin ShowTables(cat)
           THEN ToolResult(cat, "not_found", FALSE, 0, 0, NoCounts, 0)
           ELSE IF ident \notin DOMAIN cat
           THEN ToolResult(cat, "error", FALSE, 0, 0, NoCounts, 1)
           ELSE ToolResult(cat, "info", FALSE, cat[ident].rows, cat[ident].cols,
                           NoCounts, 0)
  ELSE IF ShowTables(cat) = {}
       THEN ToolResult(cat, "no_tables", FALSE, 0, 0, NoCounts, 0)
       ELSE ToolResult(cat, "list", FALSE, 0, 0,
                       [n \in ShowTables(cat) |->
                          IF UnquotedIdent(n) \in DOMAIN cat
                          THEN cat[UnquotedIdent(n)].rows ELSE CountError],
                       0)

\* handle_call_tool for any tool name and any arguments
CallTool(cat, name, arguments) ==
  IF name = "execute_query"
  THEN LET limit_text == IF arguments.limit_null THEN <<"N", "o", "n", "e">>
                         ELSE IF arguments.limit = <<>> THEN Decimal(DefaultLimit)
                         ELSE Decimal(arguments.limit[1])
           r == IF arguments.query = <<>> THEN ExecuteNone(cat)
                ELSE RunQuery(cat, arguments.query[1], limit_text)
       IN  ToolResult(r.cat, IF r.error THEN "error" ELSE "rows", r.raised, r.rows,
                      0, NoCounts, r.open)
  ELSE IF name = "get_table_info"
  THEN _get_table_info(cat, arguments.table_name)
  ELSE ToolResult(cat, "unknown_tool", FALSE, 0, 0, NoCounts, 0)

\* file-name stems of uploads, and the table names POST /upload gives them
ToolStems == {<<"t">>, <<"a", " ", "b">>, <<"a", "-", "b">>, <<"1", "a">>}
UploadedNames == {quote(stem) : stem \in ToolStems}

ToolCatalogs ==
  UNION {[S -> {Table(r, 1, NoComment) : r \in 1..MaxRows}] : S \in SUBSET UploadedNames}

ToolNames == {"execute_query", "get_table_info", "list_tables"}

ToolArguments ==
  [query : {<<>>} \cup {<<q>> : q \in Queries}, limit : LimitArgs,
   limit_null : {FALSE}, table_name : {<<>>}]
  \cup
  [query : {<<q>> : q \in Queries}, limit : {<<>>},
   limit_null : {TRUE}, table_name : {<<>>}]
  \cup
  [query : {<<>>}, limit : {<<>>}, limit_null : {FALSE},
   table_name : {<<>>, <<<<>>>>, <<<<"d">>>>} \cup {<<n>> : n \in UploadedNames}]

\* a tool call waits to be handled
InitTools ==
  /\ catalog \in ToolCatalogs
  /\ clock = 1
  /\ pending \in [name : ToolNames, arguments : ToolArguments]
  /\ resp = NoResp

CallToolStep ==
  /\ pending # NoRequest
  /\ LET r == CallTool(catalog, pending.name, pending.arguments)
     IN  /\ catalog' = r.cat
         /\ resp' = [op |-> pending.name, arguments |-> pending.arguments,
                     kind |-> r.kind, raised |-> r.raised, rows |-> r.rows,
                     cols |-> r.cols, counts |-> r.counts, open |-> r.open]
  /\ pending' = NoRequest
  /\ UNCHANGED clock

NextTools == CallToolStep

SpecTools == InitTools /\ [][NextTools]_vars

(* ======================= upload pipeline claims ======================== *)
\* the step in which upload_file handles the pending request
Handled == pending # NoRequest /\ pending' = NoRequest

IsCsvTsv(req) == req.ext \in {"csv", "tsv"}

\* the file is decoded, staged and read by the engine
Imported(req) ==
  /\ IsCsvTsv(req)
  /\ _decode_with_fallbacks(req.bytes).ok
  /\ req.fault = "none"

HeaderOnly(req) == Imported(req) /\ req.shape.cols > 0 /\ req.shape.rows = 0

NonAsciiStem(req) == _needs_safe_name(unquote(req.stem))

\* C1: an upload of a header-only .csv/.tsv file ends in an error response
\* carrying the "no data rows" diagnostic, and afterwards the catalog has no
\* table under the upload's table name (the percent-encoded stem or the
\* generated name it is renamed to).
C1_HeaderOnlyRejected ==
  [][(Handled /\ HeaderOnly(pending)) =>
       /\ resp'.status >= 400
       /\ resp'.diag = "no_rows"
       /\ quote(pending.stem) \notin DOMAIN catalog'
       /\ (NonAsciiStem(pending) => SafeName(clock) \notin DOMAIN catalog')]_vars

\* C2: an upload of a .csv/.tsv file that no encoding decodes is answered
\* with a 4xx status and the encoding message, and the catalog is unchanged.
C2_UndecodableIs400 ==
  [][(Handled /\ IsCsvTsv(pending) /\ ~_decode_with_fallbacks(pending.bytes).ok) =>
       /\ resp'.status \in 400..499
       /\ resp'.diag = "encoding"
       /\ catalog' = catalog]_vars

\* C3: an upload of a valid .csv/.tsv file whose decoded stem has a
\* non-ASCII character stores the table under table_<seconds>, not under the
\* percent-encoded stem, answers with that name, and the metadata of that
\* name has the decoded stem as table comment.
C3_NonAsciiStoredUnderSafeName ==
  [][(Handled /\ Imported(pending) /\ NonAsciiStem(pending)
        /\ pending.shape.cols > 0 /\ pending.shape.rows > 0) =>
       /\ resp'.status = 200
       /\ resp'.table = SafeName(clock)
       /\ SafeName(clock) \in DOMAIN catalog'
       /\ quote(pending.stem) \notin DOMAIN catalog'
       /\ get_table_metadata(catalog', SafeName(clock)).comment
            = unquote(pending.stem)]_vars

\* C4: whatever way an upload ends, no temporary file it created is left.
C4_NoTempFileLeft == resp.op = "upload" => resp.temps = 0

\* C5: when no request is in flight, no connection opened by a request is
\* still open.
C5_NoConnectionLeft == pending = NoRequest => resp.open = 0

\* C6: an upload that ends in an error leaves none of the tables it created
\* in the catalog.
C6_FailedUploadLeavesNoOwnTable ==
  (resp.op = "upload" /\ resp.status # 200) => resp.own \cap DOMAIN catalog = {}

(* =========================== decoding claims =========================== *)
\* a UTF-16 code unit of two bytes, low byte first
Utf16Unit(lo, hi) ==
  CASE hi = 0 /\ lo = 116 -> "t"
    [] hi = 0 /\ lo = 0 -> "U+0"
    [] hi = 0 /\ lo = 129 -> "U+81"
    [] OTHER -> "U+xxxx"

RECURSIVE Utf16Units(_, _)
Utf16Units(bs, little) ==
  IF bs = <<>> THEN Accepted(<<>>)
  ELSE IF Len(bs) < 2 THEN Rejected
  ELSE LET r == Utf16Units(SubSeq(bs, 3, Len(bs)), little)
           c == IF little THEN Utf16Unit(bs[1], bs[2]) ELSE Utf16Unit(bs[2], bs[1])
       IN  IF r.ok THEN Accepted(<<c>> \o r.text) ELSE Rejected

\* UTF-16 with a byte-order mark: FF FE (little endian) or FE FF (big
\* endian) followed by whole code units
Utf16WithBom(bs) ==
  IF Len(bs) >= 2 /\ bs[1] = 255 /\ bs[2] = 254
  THEN Utf16Units(SubSeq(bs, 3, Len(bs)), TRUE)
  ELSE IF Len(bs) >= 2 /\ bs[1] = 254 /\ bs[2] = 255
  THEN Utf16Units(SubSeq(bs, 3, Len(bs)), FALSE)
  ELSE Rejected

\* C15: _decode_with_fallbacks returns the decoding under the first of
\* UTF-8, CP932 and UTF-16 with byte-order mark that accepts the content,
\* and fails only when all three reject it.
C15_FirstAcceptingEncoding ==
  resp.op = "decode" =>
    LET c == resp.content
    IN  IF Utf8Decode(c).ok THEN resp.ok /\ resp.text = Utf8Decode(c).text
        ELSE IF Cp932Decode(c).ok THEN resp.ok /\ resp.text = Cp932Decode(c).text
        ELSE IF Utf16WithBom(c).ok THEN resp.ok /\ resp.text = Utf16WithBom(c).text
        ELSE ~resp.ok

(* ========================= dump import claims ========================== *)
\* the step in which a dump upload is handled and answered with success
DumpImported ==
  Handled /\ pending.ext = "duckdb" /\ resp'.status = 200

DumpNames(dump) == DumpNamesUpTo(dump, Len(dump))

\* C11: after a successful dump upload every table of the dump is in the
\* main catalog under its name, with the dump's rows, table comment and
\* column comments, and every table whose name is not in the dump is
\* unchanged.
C11_DumpTablesCopiedWithComments ==
  [][DumpImported =>
       /\ \A i \in 1..Len(pending.dump) :
            LET T == pending.dump[i]
            IN  /\ T.name \in DOMAIN catalog'
                /\ catalog'[T.name].rows = T.rows
                /\ catalog'[T.name].cols = T.cols
                /\ catalog'[T.name].comment = T.comment
                /\ catalog'[T.name].column_comments = T.column_comments
       /\ \A n \in (DOMAIN catalog) \ DumpNames(pending.dump) :
            n \in DOMAIN catalog' /\ catalog'[n] = catalog[n]]_vars

\* C17: the response of a successful dump upload lists exactly the tables
\* of the dump as imported_tables and their number as row_count.
C17_ImportedTablesAreTheDump ==
  [][DumpImported =>
       /\ resp'.imported = DumpNames(pending.dump)
       /\ resp'.row_count = Len(pending.dump)]_vars

(* ===================== upload claims, continued ======================== *)
\* the step in which a .csv / .tsv upload is handled and answered with success
CsvStored == Handled /\ IsCsvTsv(pending) /\ resp'.status = 200

\* C16: after a successful .csv / .tsv upload the row_count of the response
\* is the number of rows of the table stored under the returned table_name,
\* which is the number of data rows of the file, whatever table was stored
\* under that name before.
C16_RowCountIsTheFilesRows ==
  [][CsvStored =>
       /\ resp'.table \in DOMAIN catalog'
       /\ resp'.row_count = catalog'[resp'.table].rows
       /\ resp'.row_count = pending.shape.rows
       /\ pending.shape.rows >= 1
       /\ catalog'[resp'.table].cols = pending.shape.cols
       /\ pending.shape.cols >= 1]_vars

\* a successful upload answered with the rows of a file of MaxRows data rows
C16_Witness ==
  /\ resp.op = "upload"
  /\ resp.status = 200
  /\ resp.table = <<"t">>
  /\ resp.row_count = MaxRows
  /\ catalog[<<"t">>].rows = MaxRows
  /\ \E n \in DOMAIN catalog : catalog[n] = PriorTable

\* the step in which an upload with a non-ASCII stem meets its generated
\* name already in the catalog
SafeNameTaken ==
  /\ Handled
  /\ Imported(pending)
  /\ NonAsciiStem(pending)
  /\ SafeName(clock) \in DOMAIN catalog

\* C18: an upload whose generated name is already a table does not replace
\* or alter that table, does not report success under that name, and leaves
\* no table of its own behind.
C18_CollisionLoserLeavesNothing ==
  [][SafeNameTaken =>
       /\ SafeName(clock) \in DOMAIN catalog'
       /\ catalog'[SafeName(clock)] = catalog[SafeName(clock)]
       /\ ~(resp'.status = 200 /\ resp'.table = SafeName(clock))
       /\ resp'.own \cap DOMAIN catalog' = {}]_vars

\* C19: an upload that ends in an error leaves every table that was in the
\* catalog before it in the catalog, with the same rows.
C19_FailedUploadKeepsStoredData ==
  [][(Handled /\ resp'.status # 200) =>
       \A n \in DOMAIN catalog :
         n \in DOMAIN catalog' /\ catalog'[n].rows = catalog[n].rows]_vars

(* ------------------- two uploads in flight at once --------------------- *)
\* The handlers are coroutines of one event loop. Here pending holds, for
\* each of two POST /upload requests, its request and its position in
\* upload_file, and the request whose coroutine holds the event loop:
\*   "idle"     not arrived
\*   "reading"  suspended in "await file.read()"
\*   "created"  between CREATE OR REPLACE TABLE and the rename
\*   "done"     answered
\* and resp holds the two responses.
\* two uploads of text files; the second one has the first one's file name
ConcurrentRequests ==
  [stem : Stems, ext : {"csv"}, bytes : {<<116>>}, shape : Shapes,
   dump : {<<>>}, fault : {"none", "write", "create"}, failAt : {0}]

Response(r) ==
  [op |-> "upload", status |-> r.status, diag |-> r.diag, table |-> r.table,
   row_count |-> r.row_count, imported |-> r.imported, open |-> r.open,
   temps |-> r.temps, own |-> r.own]

InitConcurrent ==
  /\ catalog = EmptyCatalog
  /\ clock = 1
  /\ pending = [reqs |-> <<NoRequest, NoRequest>>, pc |-> <<"idle", "idle">>,
                now |-> <<0, 0>>, running |-> 0]
  /\ resp = <<NoResp, NoResp>>

\* a POST /upload arrives and its handler suspends in "await file.read()";
\* a coroutine runs only while no other one holds the event loop
Receive(i) ==
  /\ pending.running = 0
  /\ pending.pc[i] = "idle"
  /\ \E req \in ConcurrentRequests :
       /\ pending.pc[3 - i] # "idle" => req.stem = pending.reqs[3 - i].stem
       /\ pending' = [pending EXCEPT !.reqs[i] = req, !.pc[i] = "reading"]
  /\ UNCHANGED <<catalog, clock, resp>>

\* file.read() completes: the handler goes on to CREATE OR REPLACE TABLE
\* when the statements before it succeed, or to the error response of one
\* of them
Resume(i) ==
  /\ pending.running = 0
  /\ pending.pc[i] = "reading"
  /\ IF /\ pending.reqs[i].ext \in {"csv", "tsv"}
        /\ _decode_with_fallbacks(pending.reqs[i].bytes).ok
        /\ pending.reqs[i].fault = "none"
     THEN /\ catalog' = UploadCsvCreate(catalog, pending.reqs[i])
          /\ pending' = [pending EXCEPT !.pc[i] = "created", !.now[i] = clock,
                                        !.running = i]
          /\ resp' = resp
     ELSE /\ catalog' = upload_file(catalog, pending.reqs[i], clock).cat
          /\ pending' = [pending EXCEPT !.pc[i] = "done"]
          /\ resp' = [resp EXCEPT
                        ![i] = Response(upload_file(catalog, pending.reqs[i], clock))]
  /\ UNCHANGED clock

\* rename, comment, validation and response follow the create with no await
Finish(i) ==
  /\ pending.running = i
  /\ pending.pc[i] = "created"
  /\ LET r == UploadCsvFinish(catalog, pending.reqs[i], pending.now[i])
     IN  /\ catalog' = r.cat
         /\ resp' = [resp EXCEPT ![i] = Response(r)]
  /\ pending' = [pending EXCEPT !.pc[i] = "done", !.running = 0]
  /\ UNCHANGED clock

NextConcurrent ==
  \/ Tick
  \/ \E i \in {1, 2} : Receive(i)
  \/ \E i \in {1, 2} : Resume(i)
  \/ \E i \in {1, 2} : Finish(i)

SpecConcurrent == InitConcurrent /\ [][NextConcurrent]_vars

(* ---------------------- concurrent upload claims ----------------------- *)
BothDone == \A i \in {1, 2} : pending.pc[i] = "done"

Succeeded(i) == pending.pc[i] = "done" /\ resp[i].status = 200

\* the table of upload i is stored with the rows of its file
HoldsUpload(i) ==
  /\ QuotedIdent(resp[i].table) \in DOMAIN catalog
  /\ catalog[QuotedIdent(resp[i].table)].rows = pending.reqs[i].shape.rows

\* C20: of two uploads of the same file name in flight together, one is never
\* between its create and its response while the other takes a step; each
\* successful response reports the row count of its own file; and once both
\* are answered and one succeeded, the stored table holds the rows of a
\* successful upload.
C20_ConcurrentUploadsDoNotInterleave ==
  /\ \A i \in {1, 2} :
       pending.pc[i] = "created" =>
         pending.running = i /\ pending.pc[3 - i] # "created"
  /\ \A i \in {1, 2} :
       Succeeded(i) => resp[i].row_count = pending.reqs[i].shape.rows
  /\ (BothDone /\ \E i \in {1, 2} : Succeeded(i)) =>
       \E i \in {1, 2} : Succeeded(i) /\ HoldsUpload(i)

(* ========================== resolver claims ============================ *)
Stored == DOMAIN catalog

\* C7 (as stated): the resolver returns the first of [p, unquote(p),
\* quote(p)] that is a table and fails only when none is; and whenever
\* quote(n) is a table, resolving n returns quote(n), as resolving quote(n)
\* does.
C7_EncodedAlwaysWins ==
  resp.op = "resolve" =>
    LET p == resp.path
    IN  /\ resp.ok <=> (p \in Stored \/ unquote(p) \in Stored \/ quote(p) \in Stored)
        /\ (p \in Stored => resp.ok /\ resp.name = p)
        /\ (quote(p) \in Stored => resp.ok /\ resp.name = quote(p))

\* C7 (amended): the resolver returns the first of [p, unquote(p), quote(p)]
\* that is a table and fails only when none is; resolving a stored name
\* returns that name, and resolving n returns the stored quote(n) when
\* neither n nor unquote(n) is itself a table.
C7_FirstCandidateWins ==
  resp.op = "resolve" =>
    LET p == resp.path
    IN  /\ resp.ok <=> (p \in Stored \/ unquote(p) \in Stored \/ quote(p) \in Stored)
        /\ (p \in Stored => resp.ok /\ resp.name = p)
        /\ (p \notin Stored /\ unquote(p) \in Stored =>
              resp.ok /\ resp.name = unquote(p))
        /\ (p \notin Stored /\ unquote(p) \notin Stored /\ quote(p) \in Stored =>
              resp.ok /\ resp.name = quote(p))

\* the decoded form of a name stored percent-encoded is resolved to it
C7_Witness ==
  /\ resp.op = "resolve"
  /\ resp.path \notin Stored
  /\ quote(resp.path) # resp.path
  /\ resp.ok
  /\ resp.name = quote(resp.path)

(* ======================= table endpoint claims ========================= *)
ResolvingOps == {"query", "schema", "metadata", "delete", "rename"}

NoCandidate(cat, p) ==
  /\ p \notin DOMAIN cat
  /\ unquote(p) \notin DOMAIN cat
  /\ quote(p) \notin DOMAIN cat

\* C8: a path name none of whose three candidate forms is a table is
\* answered with status 404 by the query, schema, metadata, delete and
\* rename endpoints, and the catalog is unchanged.
C8_UnknownTableIs404 ==
  [][(resp'.op \in ResolvingOps /\ NoCandidate(catalog, resp'.path)) =>
       /\ resp'.status = 404
       /\ catalog' = catalog]_vars

\* C10: a rename to a name that is already a table is answered 400 and
\* changes nothing; a rename that succeeds moves the table from the resolved
\* old name to new_name and changes no other table.
C10_RenameCollisionOrMove ==
  [][resp'.op = "rename" =>
       /\ (~NoCandidate(catalog, resp'.path) /\ resp'.new \in DOMAIN catalog =>
             resp'.status = 400 /\ catalog' = catalog)
       /\ (resp'.status = 200 =>
             LET old == _resolve_table_name(catalog, resp'.path).name
                 new == resp'.new
             IN  /\ DOMAIN catalog' = ((DOMAIN catalog) \ {old}) \cup {new}
                 /\ catalog'[new] = catalog[old]
                 /\ \A n \in (DOMAIN catalog) \ {old} : catalog'[n] = catalog[n])]_vars

\* C14: every statement of a table endpoint acts on exactly the table the
\* request names, whatever characters the names hold: a rename of a resolved
\* table to a free name moves that table to new_name, a delete drops the
\* resolved table and nothing else, and query, schema and metadata read the
\* resolved table.
C14_StatementsActOnTheNamedTable ==
  [][(resp'.op \in ResolvingOps /\ ~NoCandidate(catalog, resp'.path)) =>
       LET resolved == _resolve_table_name(catalog, resp'.path).name
       IN  /\ (resp'.op = "rename" /\ resp'.new \notin DOMAIN catalog =>
                 /\ resp'.status = 200
                 /\ catalog' = MoveTable(catalog, resolved, resp'.new))
           /\ (resp'.op = "delete" =>
                 /\ resp'.status = 200
                 /\ catalog' = DropIfExists(catalog, resolved))
           /\ (resp'.op \in {"query", "schema", "metadata"} =>
                 /\ resp'.status = 200
                 /\ resp'.table = resolved
                 /\ catalog' = catalog)]_vars

(* ============================ MCP claims =============================== *)
\* the statement of a query text that holds one statement, as the engine
\* reads it
OnlyStatement(query) ==
  LET stmts == Statements(query, <<>>)
      full == {i \in 1..Len(stmts) : ParseStatement(stmts[i]).kind # "empty"}
  IN  IF Cardinality(full) = 1
      THEN ParseStatement(stmts[CHOOSE i \in full : TRUE])
      ELSE [kind |-> "error", table |-> <<>>, limit |-> -1]

\* C9: execute_query on a SELECT statement without a LIMIT clause returns at
\* most limit rows (100 when no limit is given); a SELECT statement with a
\* LIMIT clause is executed as given.
C9_SelectIsCapped ==
  resp.op = "execute_query" =>
    LET st == OnlyStatement(resp.query)
        limit == IF resp.limit = <<>> THEN DefaultLimit ELSE resp.limit[1]
    IN  /\ (st.kind = "select" /\ st.limit < 0 => resp.rows <= limit)
        /\ (st.kind = "select" /\ st.limit >= 0 => resp.final = resp.query)

(* ========================== MCP tool claims ============================ *)
\* C12: execute_query and get_table_info answer every call with a text; no
\* call, whatever its arguments and whatever the engine does, ends with an
\* exception leaving the handler.
C12_ToolsNeverRaise ==
  resp.op \in {"execute_query", "get_table_info"} => ~resp.raised

\* C13: get_table_info with the name of a catalog table answers with the
\* columns and the row count of that table; without a name it lists every
\* catalog table with its row count.
C13_TableInfoForEveryTable ==
  resp.op = "get_table_info" =>
    LET arg == resp.arguments.table_name
    IN  IF arg # <<>> /\ arg[1] # <<>>
        THEN arg[1] \in DOMAIN catalog =>
               /\ resp.kind = "info"
               /\ resp.rows = catalog[arg[1]].rows
               /\ resp.cols = catalog[arg[1]].cols
        ELSE DOMAIN catalog # {} =>
               /\ resp.kind = "list"
               /\ resp.counts = [n \in DOMAIN catalog |-> catalog[n].rows]

(* ====================== comment endpoint claims ======================== *)
\* GET /table/{p}/metadata succeeds
MetadataSucceeds(cat, p) == get_table_metadata(cat, p).status = 200

\* C21: for every path name p for which the metadata endpoint succeeds on a
\* table T, a well-formed comment put on the table or on one of its columns
\* through p succeeds, changes the comment of T and nothing else, and is the
\* comment the next metadata request for p returns.
C21_CommentEndpointsAcceptMetadataNames ==
  [][(resp'.op \in {"comment", "column_comment"}
      /\ MetadataSucceeds(catalog, resp'.path)
      /\ resp'.put = <<"c">>) =>
       LET p == resp'.path
           T == get_table_metadata(catalog, p).table
           cols == {k \in 1..catalog[T].cols : catalog[T].columns[k] = resp'.column}
       IN  /\ (resp'.op = "comment" =>
                 /\ resp'.status = 200
                 /\ catalog' = SetComment(catalog, T, <<"c">>)
                 /\ get_table_metadata(catalog', p).comment = <<"c">>)
           /\ (resp'.op = "column_comment" =>
                 \A k \in cols :
                   /\ resp'.status = 200
                   /\ catalog' = [catalog EXCEPT ![T] =
                                    [@ EXCEPT !.column_comments[k] = <<"c">>]]
                   /\ get_table_metadata(catalog', p).columns[k] = <<"c">>)]_vars

====
